---- MODULE Spec2Model ----
(***************************************************************************)
(* Model of src/app/data.py: the source reader (read_tables_from_file),    *)
(* the partitioner (split_into_terciles) and the indicator engine          *)
(* (compute_bbands, compute_macd), as one pipeline                         *)
(*     file --read--> tables --split(tables[0])--> segments --indicator--> *)
(* DataFrames are objects on a heap so that aliasing (the empty dataset is *)
(* returned three times as the same object) and in-place writes are        *)
(* visible.                                                                *)
(***************************************************************************)
EXTENDS Integers, Sequences, FiniteSets, TLC

VARIABLES file, pc, err, trace, tables, heap, splits, result, call

vars == <<file, pc, err, trace, tables, heap, splits, result, call>>

(***************************************************************************)
(* Bounds of the input universe.                                           *)
(***************************************************************************)
MaxRows == 4        \* rows of a file whose cells vary freely
MaxDate == 3        \* distinct parsable dates 1..MaxDate
MaxClose == 2       \* Close prices 0..MaxClose
MaxSeries == 9      \* rows of a date-ordered, constant-Close price series
Scale == 10         \* floats are fixed-point numbers in units of 1/Scale

(***************************************************************************)
(* Program constants.                                                      *)
(***************************************************************************)
SampleSize == 8192      \* f.read(8192)
TagLen == 6             \* len("<table")
DefaultWindow == 20     \* compute_bbands n
DefaultK == 2           \* compute_bbands k
DefaultFast == 12       \* compute_macd fast
DefaultSlow == 26       \* compute_macd slow
DefaultSignal == 9      \* compute_macd signal

NaT == -1               \* the null date pd.to_datetime(errors="coerce") yields
Unparsable == 0         \* a raw Date cell whose text is no date
NoTag == -1             \* offset of "<table" in a file that has none

Max(a, b) == IF a >= b THEN a ELSE b

BaseColumns == {"Date", "Close", "OpenInt"}
BbandsColumns == {"MA", "Std", "Upper", "Lower", "PercentB", "BandWidth"}
MacdColumns == {"MACD", "Signal", "Hist"}
DerivedColumns == BbandsColumns \cup MacdColumns
Parts == {"early", "mid", "recent"}

(***************************************************************************)
(* Floats: a finite value v/Scale, NaN, +inf or -inf.                      *)
(***************************************************************************)
Num(v) == [t |-> "num", v |-> v]
NaN == [t |-> "nan", v |-> 0]
PosInf == [t |-> "inf", v |-> 0]
NegInf == [t |-> "-inf", v |-> 0]

\* mutant: a zero divisor yields 0
FDivGuarded(a, b) == IF b = 0 THEN [t |-> "num", v |-> 0] ELSE [t |-> "num", v |-> (a * Scale) \div b]

\* IEEE division of two finite floats a/Scale and b/Scale, as pandas divides
\* two float columns: x/0 is +-inf, 0/0 is NaN, nothing is raised.
FDiv(a, b) ==
    IF b = 0
    THEN IF a = 0 THEN NaN ELSE IF a > 0 THEN PosInf ELSE NegInf
    ELSE Num((a * Scale) \div b)

RECURSIVE ISqrtIn(_, _, _)
ISqrtIn(x, lo, hi) ==
    IF lo >= hi THEN lo
    ELSE LET mid == (lo + hi + 1) \div 2
         IN IF mid * mid <= x THEN ISqrtIn(x, mid, hi) ELSE ISqrtIn(x, lo, mid - 1)

ISqrt(x) == ISqrtIn(x, 0, x)

RECURSIVE SumSeq(_)
SumSeq(s) == IF s = <<>> THEN 0 ELSE Head(s) + SumSeq(Tail(s))

(***************************************************************************)
(* DataFrames: [columns, dateType, rows]; a row is [idx, cells], idx the   *)
(* index label and cells a function from the columns to values.            *)
(***************************************************************************)
Column(df, c) == [i \in 1..Len(df.rows) |-> df.rows[i].cells[c]]

\* df.empty: either axis has length 0
Empty(df) == Len(df.rows) = 0 \/ df.columns = {}

\* df.iloc[a:b] for 0 <= a <= b <= len(df)
ILoc(df, a, b) == [df EXCEPT !.rows = SubSeq(df.rows, a + 1, b)]

\* Python's range check of seq.iloc[i]: negative i counts from the end
IndexInRange(n, i) == -n <= i /\ i < n

(***************************************************************************)
(* read_tables_from_file                                                   *)
(***************************************************************************)
\* mutant: the sample is searched without lowering it
LowerCaseNone(c) == c

\* str.lower() on the case of the tag's letters
LowerCase(c) == "lower"

\* the tag lies wholly inside the first SampleSize characters
TagInSample(f) == f.tagOffset >= 0 /\ f.tagOffset + TagLen <= SampleSize

\* "<table" in sample.lower()
SampleHasTable(f) == TagInSample(f) /\ LowerCase(f.tagCase) = "lower"

\* the frame a parser builds from the file's cells: default RangeIndex, text
\* dates left as they are
RawFrame(f) ==
    [columns |-> f.columns,
     dateType |-> IF "Date" \in f.columns THEN "object" ELSE "none",
     rows |-> [i \in 1..Len(f.rows) |-> [idx |-> i - 1, cells |-> f.rows[i]]]]

\* df.drop(columns=["OpenInt"]) when the column is there
DropOpenInt(df) ==
    IF "OpenInt" \in df.columns
    THEN [df EXCEPT !.columns = @ \ {"OpenInt"},
                    !.rows = [i \in 1..Len(df.rows) |->
                        [df.rows[i] EXCEPT !.cells =
                            [c \in df.columns \ {"OpenInt"} |-> df.rows[i].cells[c]]]]]
    ELSE df

\* pd.to_datetime(cell, errors="coerce")
ToDatetime(c) == IF c = Unparsable THEN NaT ELSE c

\* df["Date"] = pd.to_datetime(df["Date"], errors="coerce")
ParseDate(df) ==
    [df EXCEPT !.dateType = "datetime",
               !.rows = [i \in 1..Len(df.rows) |->
                   [df.rows[i] EXCEPT !.cells["Date"] = ToDatetime(@)]]]

\* The orders an ascending sort of the Date keys may produce.  The default sort
\* kind is not stable, so rows with equal dates may come out in any order; null
\* keys are set aside and appended in their original order.
RECURSIVE AscendingOrders(_, _)
AscendingOrders(keys, S) ==
    IF S = {} THEN {<<>>}
    ELSE LET least == {i \in S : \A j \in S : keys[i] <= keys[j]}
         IN UNION {{<<i>> \o rest : rest \in AscendingOrders(keys, S \ {i})} : i \in least}

IsNull(d) == d = NaT

SortOrders(keys) ==
    LET nonnull == {i \in 1..Len(keys) : ~IsNull(keys[i])}
        nulls == SelectSeq([i \in 1..Len(keys) |-> i], LAMBDA i : IsNull(keys[i]))
    IN {o \o nulls : o \in AscendingOrders(keys, nonnull)}

\* df.sort_values("Date"): every frame the sort may return
SortValues(df) ==
    {[df EXCEPT !.rows = [i \in 1..Len(o) |-> df.rows[o[i]]]] :
        o \in SortOrders(Column(df, "Date"))}

\* df.reset_index(drop=True)
ResetIndex(df) ==
    [df EXCEPT !.rows = [i \in 1..Len(df.rows) |-> [df.rows[i] EXCEPT !.idx = i - 1]]]

\* lines 42-53: what the delimited-text path may return for a parsable file
CsvFrames(f) ==
    LET df == DropOpenInt(RawFrame(f))
    IN IF "Date" \in df.columns
       THEN {ResetIndex(s) : s \in SortValues(ParseDate(df))}
       ELSE {df}

\* pd.read_html(content, flavor="bs4") on a file it can parse: its one table
HtmlTables(f) == <<RawFrame(f)>>

\* the outcomes of one call: the error raised ("none" when it returns), the
\* tables returned and the parsers run, in order
ReadOutcomes(f) ==
    IF ~f.exists
    THEN {[err |-> "FileNotFoundError", tables |-> <<>>, trace |-> <<>>]}
    ELSE IF SampleHasTable(f)
    THEN IF f.htmlOK
         THEN {[err |-> "none", tables |-> HtmlTables(f), trace |-> <<"html">>]}
         ELSE {[err |-> "HtmlError", tables |-> <<>>, trace |-> <<"html">>]}
    ELSE IF f.csvOK
    THEN {[err |-> "none", tables |-> <<df>>, trace |-> <<"csv">>] : df \in CsvFrames(f)}
    ELSE IF f.htmlOK
    THEN {[err |-> "none", tables |-> HtmlTables(f), trace |-> <<"csv", "html">>]}
    ELSE {[err |-> "CsvError", tables |-> <<>>, trace |-> <<"csv", "html">>]}

(***************************************************************************)
(* split_into_terciles                                                     *)
(***************************************************************************)
\* "Date" in df.columns and is_datetime64_any_dtype(df["Date"])
HasDatetimeDate(df) == "Date" \in df.columns /\ df.dateType = "datetime"

\* df["Date"].dropna().sort_values(): the non-null dates, ascending
SortedDates(df) ==
    LET keys == Column(df, "Date")
        nonnull == {i \in 1..Len(keys) : ~IsNull(keys[i])}
        o == CHOOSE x \in AscendingOrders(keys, nonnull) : TRUE
    IN [i \in 1..Len(o) |-> keys[o[i]]]

\* mutant: the all-null fallback is never taken
DatesEmptyNever(dates) == FALSE

\* dates.empty
DatesEmpty(dates) == Len(dates) = 0

\* mutant: the first cut is one date late
T1IndexLate(n) == Max(0, n \div 3)

\* max(0, len(dates) // 3 - 1) and max(0, (2 * len(dates)) // 3 - 1)
T1Index(n) == Max(0, n \div 3 - 1)
T2Index(n) == Max(0, (2 * n) \div 3 - 1)

\* dates.iloc[i] for an index in range
ILocAt(s, i) == IF i >= 0 THEN s[i + 1] ELSE s[Len(s) + i + 1]

\* mutant: NaT compares like the smallest date
DateLePlain(d, t) == d <= t

\* elementwise comparisons of a datetime column with a date: false on NaT
DateLe(d, t) == ~IsNull(d) /\ ~IsNull(t) /\ d <= t
DateGt(d, t) == ~IsNull(d) /\ ~IsNull(t) /\ d > t

\* the row-count split, lines 161-166 and 177-182
PositionalSplit(df) ==
    LET n == Len(df.rows)
    IN [err |-> "none", alias |-> FALSE,
        early |-> ILoc(df, 0, n \div 3),
        mid |-> ILoc(df, n \div 3, (2 * n) \div 3),
        recent |-> ILoc(df, (2 * n) \div 3, n)]

\* the date split, lines 168-174
DateSplit(df, dates) ==
    LET t1 == ILocAt(dates, T1Index(Len(dates)))
        t2 == ILocAt(dates, T2Index(Len(dates)))
    IN [err |-> "none", alias |-> FALSE,
        early |-> [df EXCEPT !.rows =
            SelectSeq(df.rows, LAMBDA r : DateLe(r.cells["Date"], t1))],
        mid |-> [df EXCEPT !.rows =
            SelectSeq(df.rows, LAMBDA r : DateGt(r.cells["Date"], t1)
                                          /\ DateLe(r.cells["Date"], t2))],
        recent |-> [df EXCEPT !.rows =
            SelectSeq(df.rows, LAMBDA r : DateGt(r.cells["Date"], t2))]]

\* what split_into_terciles(df) does: the three frames it returns, whether
\* they are df itself (alias) rather than copies, and the error it raises
SplitIntoTerciles(df) ==
    IF Empty(df)
    THEN [err |-> "none", alias |-> TRUE, early |-> df, mid |-> df, recent |-> df]
    ELSE IF HasDatetimeDate(df)
    THEN LET dates == SortedDates(df)
         IN IF DatesEmpty(dates) THEN PositionalSplit(df)
            ELSE IF ~(IndexInRange(Len(dates), T1Index(Len(dates)))
                      /\ IndexInRange(Len(dates), T2Index(Len(dates))))
            THEN [err |-> "IndexError", alias |-> FALSE,
                  early |-> df, mid |-> df, recent |-> df]
            ELSE DateSplit(df, dates)
    ELSE PositionalSplit(df)

(***************************************************************************)
(* compute_bbands                                                          *)
(***************************************************************************)
\* the trailing window of size n ending at row i, at least one row long
\* (rolling(window=n, min_periods=1))
Window(x, n, i) == SubSeq(x, Max(1, i - n + 1), i)

\* rolling mean of the fixed-point series x at row i
RollingMean(x, n, i) ==
    LET w == Window(x, n, i) IN SumSeq(w) \div Len(w)

\* rolling population standard deviation (ddof=0) at row i:
\* sqrt(cnt * sum(x^2) - sum(x)^2) / cnt
RollingStd(x, n, i) ==
    LET w == Window(x, n, i)
        cnt == Len(w)
        sq == [j \in 1..cnt |-> w[j] * w[j]]
    IN ISqrt(cnt * SumSeq(sq) - SumSeq(w) * SumSeq(w)) \div cnt

\* lines 229-234 for row i of a frame whose Close column, in fixed point, is x
BbandsCells(x, n, k, i) ==
    LET ma == RollingMean(x, n, i)
        std == RollingStd(x, n, i)
        upper == ma + k * std
        lower == ma - k * std
    IN [MA |-> Num(ma), Std |-> Num(std), Upper |-> Num(upper), Lower |-> Num(lower),
        PercentB |-> FDiv(x[i] - lower, upper - lower),
        BandWidth |-> FDiv(upper - lower, ma)]

\* the frame with columns cols added, row i taking them from new[i]
AddColumns(df, cols, new) ==
    [df EXCEPT !.columns = @ \cup cols,
               !.rows = [i \in 1..Len(df.rows) |->
                   [df.rows[i] EXCEPT !.cells =
                       [c \in df.columns \cup cols |->
                           IF c \in cols THEN new[i][c] ELSE df.rows[i].cells[c]]]]]

\* the Close column as floats
CloseSeries(df) == [i \in 1..Len(df.rows) |-> df.rows[i].cells["Close"] * Scale]

\* the contents of the frame compute_bbands returns, lines 226-235
BbandsFrame(df, n, k) ==
    IF "Close" \notin df.columns THEN df
    ELSE LET x == CloseSeries(df)
         IN AddColumns(df, BbandsColumns, [i \in 1..Len(x) |-> BbandsCells(x, n, k, i)])

(***************************************************************************)
(* compute_macd                                                            *)
(***************************************************************************)
\* ewm(span=span, adjust=False).mean() at row i: alpha = 2 / (span + 1),
\* y[1] = x[1], y[i] = alpha * x[i] + (1 - alpha) * y[i-1]
RECURSIVE Ewm(_, _, _)
Ewm(x, span, i) ==
    IF i = 1 THEN x[1]
    ELSE (2 * x[i] + (span - 1) * Ewm(x, span, i - 1)) \div (span + 1)

EwmSeries(x, span) == [i \in 1..Len(x) |-> Ewm(x, span, i)]

\* mutant: without a Close column the derived columns are added, all NaN
MacdFrameAlways(df, fast, slow, signal) ==
    LET x == IF "Close" \in df.columns THEN CloseSeries(df)
             ELSE [i \in 1..Len(df.rows) |-> 0]
        emaFast == EwmSeries(x, fast)
        emaSlow == EwmSeries(x, slow)
        macd == [i \in 1..Len(x) |-> emaFast[i] - emaSlow[i]]
        signalLine == EwmSeries(macd, signal)
    IN AddColumns(df, MacdColumns,
           [i \in 1..Len(x) |->
               IF "Close" \in df.columns
               THEN [MACD |-> Num(macd[i]), Signal |-> Num(signalLine[i]),
                     Hist |-> Num(macd[i] - signalLine[i])]
               ELSE [MACD |-> NaN, Signal |-> NaN, Hist |-> NaN]])

\* the contents of the frame compute_macd returns, lines 293-305
MacdFrame(df, fast, slow, signal) ==
    IF "Close" \notin df.columns THEN df
    ELSE LET x == CloseSeries(df)
             emaFast == EwmSeries(x, fast)
             emaSlow == EwmSeries(x, slow)
             macd == [i \in 1..Len(x) |-> emaFast[i] - emaSlow[i]]
             signalLine == EwmSeries(macd, signal)
         IN AddColumns(df, MacdColumns,
                [i \in 1..Len(x) |-> [MACD |-> Num(macd[i]),
                                       Signal |-> Num(signalLine[i]),
                                       Hist |-> Num(macd[i] - signalLine[i])]])

\* mutant: no copy is made, df stays the caller's frame
BbandsTargetInPlace(src) == src

\* the object the name df refers to after `df = df.copy()`: a fresh frame,
\* never the caller's
BbandsTarget(src) == "result"
MacdTarget(src) == "result"

(***************************************************************************)
(* The files read.                                                         *)
(***************************************************************************)
Seqs(S, n) == UNION {[1..m -> S] : m \in 0..n}

\* rows with the given Date and Close cells; OpenInt cells are 0
MkRows(cols, dates, closes) ==
    [i \in 1..Len(dates) |->
        [c \in cols |-> IF c = "Date" THEN dates[i]
                         ELSE IF c = "Close" THEN closes[i] ELSE 0]]

Ramp(n) == [i \in 1..n |-> i]

\* a delimited-text file with no table tag
PlainCsv(cols, rows) ==
    [exists |-> TRUE, tagOffset |-> NoTag, tagCase |-> "lower",
     csvOK |-> TRUE, htmlOK |-> FALSE, columns |-> cols, rows |-> rows]

\* any raw dates, in any order, with a Close of 1
DateFiles ==
    {PlainCsv({"Date", "Close"}, MkRows({"Date", "Close"}, d, [i \in 1..Len(d) |-> 1])) :
        d \in Seqs(0..MaxDate, MaxRows)}

\* any Close prices, with ascending distinct dates or no Date column
CloseFiles ==
    {PlainCsv(cols, MkRows(cols, Ramp(Len(c)), c)) :
        c \in Seqs(0..MaxClose, MaxRows), cols \in {{"Close"}, {"Date", "Close"}}}

\* a price series of n days with a constant Close
SeriesFiles ==
    {PlainCsv({"Date", "Close"}, MkRows({"Date", "Close"}, Ramp(n), [i \in 1..n |-> c])) :
        n \in 0..MaxSeries, c \in 0..MaxClose}

TagOffsets == {NoTag, 0, SampleSize - TagLen, SampleSize - TagLen + 1, SampleSize}

FormatDates == {<<>>, <<2, 1>>, <<1, Unparsable, 1>>, <<Unparsable, 3, 2, 1>>}

\* every format: the tag anywhere or nowhere, in either case, each parser
\* accepting the content or not (read_html needs a table tag somewhere)
FormatFiles ==
    {f \in [exists : {TRUE}, tagOffset : TagOffsets, tagCase : {"lower", "upper"},
             csvOK : BOOLEAN, htmlOK : BOOLEAN,
             columns : (SUBSET BaseColumns) \ {{}},
             rows : {<<>>}] :
        /\ f.htmlOK => f.tagOffset # NoTag
        /\ f.tagOffset = NoTag => f.tagCase = "lower"}

WithRows(f, d) == [f EXCEPT !.rows = MkRows(f.columns, d, Ramp(Len(d)))]

MissingFile ==
    [exists |-> FALSE, tagOffset |-> NoTag, tagCase |-> "lower",
     csvOK |-> FALSE, htmlOK |-> FALSE, columns |-> {"Date"}, rows |-> <<>>]

Files ==
    DateFiles \cup CloseFiles \cup SeriesFiles
    \cup {WithRows(f, d) : f \in FormatFiles, d \in FormatDates} \cup {MissingFile}

\* the parameters the indicators are called with
Windows == {1, 2, DefaultWindow}
Multipliers == {0, DefaultK}
MacdParams == {<<1, 2, 1>>, <<2, 1, 2>>, <<DefaultFast, DefaultSlow, DefaultSignal>>}

(***************************************************************************)
(* The pipeline.                                                           *)
(***************************************************************************)
NoHeap == [o \in {} |-> 0]
NoSplits == [p \in Parts |-> "none"]
NoCall == [fn |-> "none", part |-> "none", args |-> <<>>]

Init ==
    /\ file \in Files
    /\ pc = "start"
    /\ err = "none"
    /\ trace = <<>>
    /\ tables = <<>>
    /\ heap = NoHeap
    /\ splits = NoSplits
    /\ result = "none"
    /\ call = NoCall

\* tables = read_tables_from_file(path); df = tables[0]
Read ==
    /\ pc = "start"
    /\ \E out \in ReadOutcomes(file) :
        /\ err' = out.err
        /\ trace' = out.trace
        /\ tables' = out.tables
        /\ pc' = IF out.err = "none" THEN "read" ELSE "failed"
        /\ heap' = IF out.err = "none" /\ Len(out.tables) > 0
                   THEN [o \in {"df"} |-> out.tables[1]] ELSE NoHeap
    /\ UNCHANGED <<file, splits, result, call>>

\* splits = split_into_terciles(df)
Split ==
    /\ pc = "read"
    /\ Len(tables) > 0
    /\ LET out == SplitIntoTerciles(heap["df"])
       IN /\ err' = out.err
          /\ IF out.err # "none"
             THEN pc' = "failed" /\ UNCHANGED <<heap, splits>>
             ELSE /\ pc' = "split"
                  /\ IF out.alias
                     THEN /\ splits' = [p \in Parts |-> "df"]
                          /\ UNCHANGED heap
                     ELSE /\ splits' = [p \in Parts |-> p]
                          /\ heap' = [o \in {"df"} \cup Parts |->
                                        IF o = "df" THEN heap["df"] ELSE out[o]]
    /\ UNCHANGED <<file, trace, tables, result, call>>

\* the heap after frame `new` is stored in object `target`
Store(target, new) ==
    [o \in DOMAIN heap \cup {target} |-> IF o = target THEN new ELSE heap[o]]

\* bb = compute_bbands(splits[part], n, k)
Bbands ==
    /\ pc = "split"
    /\ result = "none"
    /\ \E part \in Parts, n \in Windows, k \in Multipliers :
        LET src == splits[part]
            target == BbandsTarget(src)
        IN /\ heap' = Store(target, BbandsFrame(heap[src], n, k))
           /\ result' = target
           /\ call' = [fn |-> "bbands", part |-> part, args |-> <<n, k>>]
    /\ UNCHANGED <<file, pc, err, trace, tables, splits>>

\* macd_df = compute_macd(splits[part], fast, slow, signal)
Macd ==
    /\ pc = "split"
    /\ result = "none"
    /\ \E part \in Parts, a \in MacdParams :
        LET src == splits[part]
            target == MacdTarget(src)
        IN /\ heap' = Store(target, MacdFrame(heap[src], a[1], a[2], a[3]))
           /\ result' = target
           /\ call' = [fn |-> "macd", part |-> part, args |-> a]
    /\ UNCHANGED <<file, pc, err, trace, tables, splits>>

\* the caller has plotted the returned frame and lets go of it; a frame that
\* is still a segment or the dataset lives on
Release ==
    /\ pc = "split"
    /\ result # "none"
    /\ heap' = [o \in DOMAIN heap \ ({result} \ ({"df"} \cup Parts)) |-> heap[o]]
    /\ result' = "none"
    /\ call' = NoCall
    /\ UNCHANGED <<file, pc, err, trace, tables, splits>>

Next == Read \/ Split \/ Bbands \/ Macd \/ Release

Spec == Init /\ [][Next]_vars

(***************************************************************************)
(* Properties.                                                             *)
(***************************************************************************)
Df == heap["df"]
Seg(p) == heap[splits[p]]
DateOf(r) == r.cells["Date"]
NonNullRows(df) == SelectSeq(df.rows, LAMBDA r : ~IsNull(DateOf(r)))

\* the dataset is split by date: non-empty, datetime-typed Date, a non-null date
DateCase ==
    /\ pc = "split"
    /\ Len(Df.rows) > 0
    /\ "Date" \in Df.columns /\ Df.dateType = "datetime"
    /\ Len(NonNullRows(Df)) > 0

Occurrences(p, r) == Cardinality({i \in 1..Len(Seg(p).rows) : Seg(p).rows[i] = r})
Sizes == <<Len(Seg("early").rows), Len(Seg("mid").rows), Len(Seg("recent").rows)>>
InOrder(p, q) ==
    \A i \in 1..Len(Seg(p).rows), j \in 1..Len(Seg(q).rows) :
        DateOf(Seg(p).rows[i]) <= DateOf(Seg(q).rows[j])

\* C1: in the date-based split every row with a non-null date is in exactly one
\* of early, mid, recent, every row with a null date is in none, and no date of
\* early exceeds a date of mid, no date of mid a date of recent.
C1_DatePartition ==
    DateCase =>
        /\ \A i \in 1..Len(Df.rows) :
              LET r == Df.rows[i]
                  total == Occurrences("early", r) + Occurrences("mid", r)
                           + Occurrences("recent", r)
              IN IF IsNull(DateOf(r)) THEN total = 0 ELSE total = 1
        /\ InOrder("early", "mid")
        /\ InOrder("mid", "recent")

C1_Witness ==
    /\ DateCase
    /\ \E i \in 1..Len(Df.rows) : IsNull(DateOf(Df.rows[i]))
    /\ \A p \in Parts : Len(Seg(p).rows) > 0

\* C2: early, mid and recent concatenated in that order are the dataset's rows
\* in their original order (its rows with a non-null date, for the date-based
\* split).
C2_RoundTrip ==
    pc = "split" =>
        Seg("early").rows \o Seg("mid").rows \o Seg("recent").rows
            = IF DateCase THEN NonNullRows(Df) ELSE Df.rows

\* supporting C2: the round trip holds of every dataset that has a column
RoundTripWithColumns == (pc = "split" /\ Df.columns # {}) => C2_RoundTrip

\* a date-based split of a file whose rows were out of order, some date null
C2_Witness ==
    /\ DateCase
    /\ Len(Df.rows) > Len(NonNullRows(Df))
    /\ \E i \in 1..Len(file.rows) - 1 :
          file.rows[i]["Date"] > file.rows[i + 1]["Date"] /\ file.rows[i + 1]["Date"] # Unparsable
    /\ Len(Seg("early").rows) > 0 /\ Len(Seg("recent").rows) > 0

\* C3: with no datetime-typed Date column holding a non-null value, the n rows
\* are split by position: early = rows [0, n/3), mid = rows [n/3, 2n/3),
\* recent = rows [2n/3, n).
C3_PositionalSplit ==
    (pc = "split" /\ ~DateCase) =>
        LET n == Len(Df.rows)
        IN /\ Seg("early").rows = SubSeq(Df.rows, 1, n \div 3)
           /\ Seg("mid").rows = SubSeq(Df.rows, n \div 3 + 1, (2 * n) \div 3)
           /\ Seg("recent").rows = SubSeq(Df.rows, (2 * n) \div 3 + 1, n)
           /\ Sizes = <<n \div 3, (2 * n) \div 3 - n \div 3, n - (2 * n) \div 3>>

\* supporting C3: the positional split is as stated when the dataset has a column
PositionalSplitWithColumns == (pc = "split" /\ Df.columns # {}) => C3_PositionalSplit

\* a positional split of a dataset whose dates are all null
C3_Witness ==
    /\ pc = "split" /\ ~DateCase
    /\ "Date" \in Df.columns /\ Df.dateType = "datetime"
    /\ Len(Df.rows) >= 2

\* C6: split_into_terciles raises nothing, and an empty dataset gives three
\* empty segments.
C6_SplitNeverFails ==
    /\ err \in {"none", "FileNotFoundError", "CsvError", "HtmlError"}
    /\ (pc = "failed" => err # "none" /\ heap = NoHeap)
    /\ (pc = "split" /\ Len(Df.rows) = 0) => \A p \in Parts : Len(Seg(p).rows) = 0

C6_Witness ==
    /\ pc = "split"
    /\ Len(Df.rows) = 0
    /\ "Date" \in Df.columns /\ Df.dateType = "datetime"

PositionalSizes(m) == <<m \div 3, (2 * m) \div 3 - m \div 3, m - (2 * m) \div 3>>

DistinctDates(df) ==
    \A i, j \in 1..Len(df.rows) : i # j => DateOf(df.rows[i]) # DateOf(df.rows[j])

\* C10 as claimed: the date-based split of a date-sorted dataset of m rows has
\* sizes floor(m/3), floor(2m/3) - floor(m/3), m - floor(2m/3).
C10_EqualThirds ==
    (pc = "split" /\ "Date" \in Df.columns /\ Df.dateType = "datetime") =>
        Sizes = PositionalSizes(Len(Df.rows))

\* C10 amended: it has those sizes, and the segments are those of the
\* positional split, when m >= 3 and the dates are non-null and pairwise
\* distinct.
C10_EqualThirdsDistinct ==
    (/\ pc = "split" /\ "Date" \in Df.columns /\ Df.dateType = "datetime"
     /\ Len(Df.rows) >= 3
     /\ Len(NonNullRows(Df)) = Len(Df.rows)
     /\ DistinctDates(Df)) =>
        LET m == Len(Df.rows)
        IN /\ Sizes = PositionalSizes(m)
           /\ Seg("early").rows = SubSeq(Df.rows, 1, m \div 3)
           /\ Seg("mid").rows = SubSeq(Df.rows, m \div 3 + 1, (2 * m) \div 3)
           /\ Seg("recent").rows = SubSeq(Df.rows, (2 * m) \div 3 + 1, m)

C10_Witness ==
    /\ DateCase
    /\ Len(Df.rows) = MaxSeries
    /\ DistinctDates(Df)
    /\ Sizes = <<MaxSeries \div 3, MaxSeries \div 3, MaxSeries \div 3>>

\* the date a Date cell stands for: the cell itself once parsed, the date its
\* text denotes (none for unparsable text) in a table whose dates are text
DateKey(df, r) == IF df.dateType = "datetime" THEN DateOf(r) ELSE ToDatetime(DateOf(r))

SortedNullsLast(df) ==
    \A i, j \in 1..Len(df.rows) :
        i < j => LET a == DateKey(df, df.rows[i])
                     b == DateKey(df, df.rows[j])
                 IN /\ IsNull(a) => IsNull(b)
                    /\ (~IsNull(a) /\ ~IsNull(b)) => a <= b

Count(s, v) == Cardinality({i \in 1..Len(s) : s[i] = v})

\* a returned table is parsed and sorted: as many null dates as the file has
\* unparsable ones, and the rows ascending by date with the nulls last
Ingested(df) ==
    /\ Count(Column(df, "Date"), NaT)
           = Count([i \in 1..Len(file.rows) |-> file.rows[i]["Date"]], Unparsable)
    /\ SortedNullsLast(df)

\* C9: every table read_tables_from_file returns that has a Date column is
\* sorted ascending by it, unparsable dates made null and placed last,
\* whichever path produced it.
C9_IngestionSorted ==
    pc = "read" =>
        \A t \in 1..Len(tables) : "Date" \in tables[t].columns => Ingested(tables[t])

\* supporting C9: it holds of the tables the delimited-text path returns
IngestionSortedCsv ==
    (pc = "read" /\ trace = <<"csv">>) =>
        \A t \in 1..Len(tables) : "Date" \in tables[t].columns => Ingested(tables[t])

BbandsOnConstant ==
    /\ pc = "split"
    /\ call.fn = "bbands"
    /\ "Close" \in Seg(call.part).columns
    /\ Len(Seg(call.part).rows) > 0
    /\ \A i, j \in 1..Len(Seg(call.part).rows) :
          Seg(call.part).rows[i].cells["Close"] = Seg(call.part).rows[j].cells["Close"]

\* C4 as claimed: on a constant Close series every row has Std = 0,
\* Upper = Lower = MA, and PercentB and BandWidth both NaN.
C4_ConstantClose ==
    BbandsOnConstant =>
        \A i \in 1..Len(heap[result].rows) :
            LET c == heap[result].rows[i].cells
            IN /\ c["Std"] = Num(0)
               /\ c["Upper"] = c["MA"] /\ c["Lower"] = c["MA"]
               /\ c["PercentB"] = NaN
               /\ c["BandWidth"] = NaN

\* C4 amended: every row has Std = 0, Upper = Lower = MA and PercentB NaN;
\* BandWidth is NaN when the constant is 0 and is 0 otherwise.
C4_ConstantCloseBandWidth ==
    BbandsOnConstant =>
        \A i \in 1..Len(heap[result].rows) :
            LET c == heap[result].rows[i].cells
            IN /\ c["Std"] = Num(0)
               /\ c["Upper"] = c["MA"] /\ c["Lower"] = c["MA"]
               /\ c["PercentB"] = NaN
               /\ c["BandWidth"] = IF c["Close"] = 0 THEN NaN ELSE Num(0)

C4_Witness ==
    /\ BbandsOnConstant
    /\ call.args = <<DefaultWindow, DefaultK>>
    /\ Len(Seg(call.part).rows) >= 3
    /\ Seg(call.part).rows[1].cells["Close"] > 0
    /\ heap[result].rows[3].cells["BandWidth"] = Num(0)
    /\ heap[result].rows[3].cells["PercentB"] = NaN

\* C5: on a segment with no Close column compute_bbands and compute_macd
\* return the segment's columns and rows unchanged and raise nothing.
C5_NoClosePassThrough ==
    (pc = "split" /\ call.fn # "none" /\ "Close" \notin Seg(call.part).columns) =>
        /\ heap[result].columns = Seg(call.part).columns
        /\ Len(heap[result].rows) = Len(Seg(call.part).rows)
        /\ heap[result] = Seg(call.part)
        /\ err = "none"

C5_Witness ==
    /\ pc = "split"
    /\ call.fn = "macd"
    /\ Seg(call.part).columns = {"Date"}
    /\ Len(Seg(call.part).rows) >= 2
    /\ result # "none"

Inputs == {"df"} \cup {splits[p] : p \in Parts}

\* C7: a call of compute_bbands or compute_macd leaves the dataset and every
\* segment as they were, with no derived column, and returns a frame that is
\* none of them.
C7_IndicatorPurity ==
    [][(pc = "split" /\ pc' = "split") =>
          /\ \A o \in Inputs : heap'[o] = heap[o]
          /\ \A o \in Inputs : heap'[o].columns \cap DerivedColumns = {}
          /\ result' # "none" => result' \notin Inputs]_vars

C7_Witness ==
    /\ pc = "split"
    /\ call.fn = "bbands"
    /\ splits = [p \in Parts |-> "df"]
    /\ "MA" \in heap[result].columns
    /\ "MA" \notin Df.columns

====
